---- MODULE Spec2Model ----
(***************************************************************************)
(* Pedersen/Feldman distributed key generation over a prime-order group,   *)
(* as carried out by main() of src/main.rs, together with the two helper   *)
(* functions lagrange_coeffs_at_zero and shamir_reconstruct.               *)
(*                                                                         *)
(* The scalar field Z_l of curve25519 (l ~ 2^252) is scaled down to Z_Q    *)
(* for a small prime Q.  The prime-order subgroup generated by the base    *)
(* point G is cyclic of order Q, so a point is represented by the unique   *)
(* k in 0..Q-1 with point = k*G; point addition is addition mod Q and      *)
(* scalar multiplication is multiplication mod Q.  The 32-byte little      *)
(* endian encodings are scaled down to two bytes: bytes[0] and bytes[31],  *)
(* the only bytes the clamping touches.                                    *)
(***************************************************************************)
EXTENDS Integers, Sequences, FiniteSets, TLC

\* ------------------------------------------------------------ parameters

\* Parties number
N == 5
\* Threshold
T == 3

\* Prime group orders the model can be run with, and the one in use.
Primes == <<11, 13, 17, 19>>
OrderIdx == 1
Q == Primes[OrderIdx]

\* The random source: every draw is independent of every other.  A digest
\* byte lies in 0..MaxDigestByte, a blinder in 0..MaxBlinder, a random
\* coefficient in 0..MaxCoeff.
MaxDigestByte == 0
MaxBlinder == 1
MaxCoeff == 1
\* Coefficients above the constant term of the polynomials handed to
\* shamir_reconstruct directly are drawn from 0..MaxSampleCoeff.
MaxSampleCoeff == 2

Scalars == 0 .. (Q - 1)
Points == 0 .. (Q - 1)
Parties == 0 .. (N - 1)
Degrees == 0 .. (T - 1)

\* -------------------------------------------- scalar and group arithmetic

RECURSIVE ScalarPow(_, _)
\* x.pow(k): k-fold product in the scalar field, x^0 = 1
ScalarPow(x, k) == IF k = 0 THEN 1 % Q ELSE (x * ScalarPow(x, k - 1)) % Q

ScalarAdd(a, b) == (a + b) % Q
ScalarSub(a, b) == (a - b + Q) % Q
ScalarMul(a, b) == (a * b) % Q
\* Scalar::invert raises to the power l - 2; it maps zero to zero and does
\* not fail.
Invert(x) == ScalarPow(x, Q - 2)

\* EdwardsPoint::default(), the neutral element
IDENTITY == 0
\* &s * &ED25519_BASEPOINT_TABLE
BasepointMul(s) == s % Q
\* &s * P
PointMul(s, P) == (s * P) % Q
PointAdd(A, B) == (A + B) % Q
PointSub(A, B) == (A - B + Q) % Q

\* The integer a little-endian byte string encodes, as a residue.
BytesValue(bytes) == (bytes[1] + 256 * bytes[2]) % Q
\* Scalar::from_bytes_mod_order
FromBytesModOrder(bytes) == BytesValue(bytes)
\* Scalar::from_bits: keeps the bits; every later use is modulo the order
FromBits(bytes) == BytesValue(bytes)

PREFIX == <<255, 255>>

\* Parties indexes
xs == [i \in Parties |-> (i + 1) % Q]

\* ---------------------------------------------------------- key generation

\* b & 248
ClearLow3(b) == b - (b % 8)
\* (b & 127) | 64
ClampHigh(b) ==
    LET c == b % 128
    IN  IF (c \div 64) % 2 = 1 THEN c ELSE c + 64

Clamp(bytes) == <<ClearLow3(bytes[1]), ClampHigh(bytes[2])>>

\* generate_key_pair, from the digest of the random bytes on
generate_key_pair(digest) ==
    LET sk == FromBits(Clamp(digest))
    IN  <<sk, BasepointMul(sk)>>

\* Sha512::digest(&bytes)[00..32], bytes 0 and 31
DigestValues == (0 .. MaxDigestByte) \X (0 .. MaxDigestByte)
\* Scalar::random for a blinder
BlinderValues == 0 .. MaxBlinder
\* Scalar::random for a coefficient of degree 1 .. T-1
CoeffValues == 0 .. MaxCoeff

\* ------------------------------------------------------ Pedersen commitment

\* Mutant: the blinding term taken on the standard base point.
Blind_on_G(P, r, H) == PointAdd(P, BasepointMul(r))
\* Mutant: the blinding term added a second time instead of removed.
Unblind_adds(C, r, H) == PointAdd(C, PointMul(r, H))

\* &key_pairs[i].1 + &(&r_arr[i] * &PEDERSEN_BASE_POINT)
Blind(P, r, H) == PointAdd(P, PointMul(r, H))
\* &commits[i] - &(&r_arr[i] * &PEDERSEN_BASE_POINT)
Unblind(C, r, H) == PointSub(C, PointMul(r, H))

RECURSIVE PointSumUpTo(_, _)
PointSumUpTo(arr, n) ==
    IF n = 0 THEN IDENTITY ELSE PointAdd(PointSumUpTo(arr, n - 1), arr[n - 1])
\* arr.iter().sum()
PointSum(arr) == PointSumUpTo(arr, N)

\* ---------------------------------------------------------------- polynoms

\* Polynom::random: coeffs[0] = secret, coeffs[1..=degree] random
PolynomRandom(secret, rnd) == [k \in Degrees |-> IF k = 0 THEN secret ELSE rnd[k]]

RECURSIVE PolynomAtUpTo(_, _, _)
PolynomAtUpTo(coeffs, x, n) ==
    IF n = 0 THEN 0
    ELSE ScalarAdd(PolynomAtUpTo(coeffs, x, n - 1),
                   ScalarMul(coeffs[n - 1], ScalarPow(x, n - 1)))
\* Polynom::at: sum of coeffs[k] * x^k
PolynomAt(coeffs, x) == PolynomAtUpTo(coeffs, x, T)

\* F_arr, rows 1..(T - 1) exclusive filled from the coefficients
BuildF(kp, polys) ==
    [i \in Parties |->
        [j \in Degrees |->
            IF j = 0 THEN kp[i][2]
            ELSE IF j >= 1 /\ j < T - 1 THEN BasepointMul(polys[i][j])
            ELSE IDENTITY]]

\* s_arr[i][j] = polynoms[i].at(&xs[j])
BuildS(polys) == [i \in Parties |-> [j \in Parties |-> PolynomAt(polys[i], xs[j])]]

RECURSIVE FeldmanSumUpTo(_, _, _)
FeldmanSumUpTo(Fi, x, n) ==
    IF n = 0 THEN IDENTITY
    ELSE PointAdd(FeldmanSumUpTo(Fi, x, n - 1), PointMul(ScalarPow(x, n - 1), Fi[n - 1]))
\* (0..T).map(|i| j_index.pow(i)).zip(F_arr[i].iter()).map(..).sum()
FeldmanSum(Fi, x) == FeldmanSumUpTo(Fi, x, T)

\* ----------------------------------------------------------- reconstruction

RECURSIVE LagrangeProd(_, _, _)
\* cs[i] after the inner loop has run j = 0 .. n-1
LagrangeProd(pts, i, n) ==
    IF n = 0 THEN 1 % Q
    ELSE LET j == n - 1
             prev == LagrangeProd(pts, i, j)
         IN  IF i # j
             THEN ScalarMul(prev, ScalarMul(pts[j], Invert(ScalarSub(pts[j], pts[i]))))
             ELSE prev

\* Mutant: the numerator taken from xs[i] instead of xs[j].
lagrange_wrong_numerator(pts) ==
    [i \in Degrees |->
        LET f(j) == IF i = j THEN 1 % Q
                    ELSE ScalarMul(pts[i], Invert(ScalarSub(pts[j], pts[i])))
        IN  ScalarMul(f(0), ScalarMul(f(1), f(2)))]

lagrange_coeffs_at_zero(pts) == [i \in Degrees |-> LagrangeProd(pts, i, T)]

RECURSIVE ReconstructUpTo(_, _, _)
ReconstructUpTo(cs, sh, n) ==
    IF n = 0 THEN 0
    ELSE ScalarAdd(ReconstructUpTo(cs, sh, n - 1), ScalarMul(cs[n - 1], sh[n - 1]))

\* Mutant: the last term of the sum left out.
shamir_reconstruct_short(pts, sh) ==
    ReconstructUpTo(lagrange_coeffs_at_zero(pts), sh, T - 1)

shamir_reconstruct(pts, sh) == ReconstructUpTo(lagrange_coeffs_at_zero(pts), sh, T)

RECURSIVE ColumnSumUpTo(_, _, _)
ColumnSumUpTo(s, i, n) ==
    IF n = 0 THEN 0 ELSE ScalarAdd(ColumnSumUpTo(s, i, n - 1), s[n - 1][i])
RECURSIVE RowSumUpTo(_, _, _)
RowSumUpTo(s, i, n) ==
    IF n = 0 THEN 0 ELSE ScalarAdd(RowSumUpTo(s, i, n - 1), s[i][n - 1])
\* Mutant: arr[i] += s_arr[i][j], the shares party i sent instead of received.
AggregateShares_rows(s) == [i \in Parties |-> RowSumUpTo(s, i, N)]

\* arr[i] += s_arr[j][i] for j in 0..N
AggregateShares(s) == [i \in Parties |-> ColumnSumUpTo(s, i, N)]

\* xs[0..T], shares[0..T]
FirstT(arr) == [k \in Degrees |-> arr[k]]

\* -------------------------------------------------------------------- state

VARIABLES
    pc,                       \* position in main, or in the direct call
    prefix_scalar,            \* Scalar::from_bytes_mod_order(PREFIX)
    PEDERSEN_BASE_POINT,
    key_pairs,                \* <<secret, public>> per party
    r_arr,                    \* blinders
    commits,
    commits_unblinded,
    public_key,
    polynoms,                 \* coeffs per party
    F_arr,
    s_arr,
    vi, vj,                   \* counters of the verification loop
    checked,                  \* pairs <<i, j>> whose assert_eq was evaluated
    shares,
    reconstruct_participants,
    reconstruct_shares,
    secret,
    sample                    \* polynomial of a direct call of shamir_reconstruct

vars == <<pc, prefix_scalar, PEDERSEN_BASE_POINT, key_pairs, r_arr, commits,
          commits_unblinded, public_key, polynoms, F_arr, s_arr, vi, vj, checked,
          shares, reconstruct_participants, reconstruct_shares, secret, sample>>

ZeroPoints == [i \in Parties |-> IDENTITY]
ZeroScalars == [i \in Parties |-> 0]
ZeroT == [k \in Degrees |-> 0]

Blank ==
    /\ prefix_scalar = 0
    /\ PEDERSEN_BASE_POINT = IDENTITY
    /\ key_pairs = [i \in Parties |-> <<0, IDENTITY>>]
    /\ r_arr = ZeroScalars
    /\ commits = ZeroPoints
    /\ commits_unblinded = ZeroPoints
    /\ public_key = IDENTITY
    /\ polynoms = [i \in Parties |-> ZeroT]
    /\ F_arr = [i \in Parties |-> [j \in Degrees |-> IDENTITY]]
    /\ s_arr = [i \in Parties |-> ZeroScalars]
    /\ vi = 0
    /\ vj = 0
    /\ checked = {}
    /\ shares = ZeroScalars
    /\ reconstruct_participants = ZeroT
    /\ reconstruct_shares = ZeroT
    /\ secret = 0

Init ==
    /\ pc = "base_point"
    /\ Blank
    /\ sample = ZeroT

\* --------------------------------------------------------------------- main

DeriveBasePoint ==
    /\ pc = "base_point"
    /\ prefix_scalar' = FromBytesModOrder(PREFIX)
    /\ PEDERSEN_BASE_POINT' = BasepointMul(prefix_scalar')
    /\ pc' = "key_pairs"
    /\ UNCHANGED <<key_pairs, r_arr, commits, commits_unblinded, public_key, polynoms,
                   F_arr, s_arr, vi, vj, checked, shares, reconstruct_participants,
                   reconstruct_shares, secret, sample>>

GenerateKeyPairs ==
    /\ pc = "key_pairs"
    /\ \E digests \in [Parties -> DigestValues] :
          key_pairs' = [i \in Parties |-> generate_key_pair(digests[i])]
    /\ pc' = "blinders"
    /\ UNCHANGED <<prefix_scalar, PEDERSEN_BASE_POINT, r_arr, commits,
                   commits_unblinded, public_key, polynoms, F_arr, s_arr, vi, vj,
                   checked, shares, reconstruct_participants, reconstruct_shares,
                   secret, sample>>

GenerateBlinders ==
    /\ pc = "blinders"
    /\ \E r \in [Parties -> BlinderValues] : r_arr' = r
    /\ pc' = "commits"
    /\ UNCHANGED <<prefix_scalar, PEDERSEN_BASE_POINT, key_pairs, commits,
                   commits_unblinded, public_key, polynoms, F_arr, s_arr, vi, vj,
                   checked, shares, reconstruct_participants, reconstruct_shares,
                   secret, sample>>

Commit ==
    /\ pc = "commits"
    /\ commits' = [i \in Parties |-> Blind(key_pairs[i][2], r_arr[i], PEDERSEN_BASE_POINT)]
    /\ pc' = "unblind"
    /\ UNCHANGED <<prefix_scalar, PEDERSEN_BASE_POINT, key_pairs, r_arr,
                   commits_unblinded, public_key, polynoms, F_arr, s_arr, vi, vj,
                   checked, shares, reconstruct_participants, reconstruct_shares,
                   secret, sample>>

UnblindCommits ==
    /\ pc = "unblind"
    /\ commits_unblinded' =
          [i \in Parties |-> Unblind(commits[i], r_arr[i], PEDERSEN_BASE_POINT)]
    /\ pc' = "public_key"
    /\ UNCHANGED <<prefix_scalar, PEDERSEN_BASE_POINT, key_pairs, r_arr, commits,
                   public_key, polynoms, F_arr, s_arr, vi, vj, checked, shares,
                   reconstruct_participants, reconstruct_shares, secret, sample>>

SumPublicKey ==
    /\ pc = "public_key"
    /\ public_key' = PointSum(commits_unblinded)
    /\ pc' = "polynoms"
    /\ UNCHANGED <<prefix_scalar, PEDERSEN_BASE_POINT, key_pairs, r_arr, commits,
                   commits_unblinded, polynoms, F_arr, s_arr, vi, vj, checked, shares,
                   reconstruct_participants, reconstruct_shares, secret, sample>>

RandomPolynoms ==
    /\ pc = "polynoms"
    /\ \E rnd \in [Parties -> [1 .. (T - 1) -> CoeffValues]] :
          polynoms' = [i \in Parties |-> PolynomRandom(key_pairs[i][1], rnd[i])]
    /\ pc' = "F_arr"
    /\ UNCHANGED <<prefix_scalar, PEDERSEN_BASE_POINT, key_pairs, r_arr, commits,
                   commits_unblinded, public_key, F_arr, s_arr, vi, vj, checked,
                   shares, reconstruct_participants, reconstruct_shares, secret,
                   sample>>

PublishF ==
    /\ pc = "F_arr"
    /\ F_arr' = BuildF(key_pairs, polynoms)
    /\ pc' = "s_arr"
    /\ UNCHANGED <<prefix_scalar, PEDERSEN_BASE_POINT, key_pairs, r_arr, commits,
                   commits_unblinded, public_key, polynoms, s_arr, vi, vj, checked,
                   shares, reconstruct_participants, reconstruct_shares, secret,
                   sample>>

EvaluateShares ==
    /\ pc = "s_arr"
    /\ s_arr' = BuildS(polynoms)
    /\ pc' = "verify"
    /\ UNCHANGED <<prefix_scalar, PEDERSEN_BASE_POINT, key_pairs, r_arr, commits,
                   commits_unblinded, public_key, polynoms, F_arr, vi, vj, checked,
                   shares, reconstruct_participants, reconstruct_shares, secret,
                   sample>>

\* The bound of the inner loop of the verification
VerifyReceivers == T

\* One iteration of the inner loop: `continue` when i == j, the assert_eq
\* otherwise; past the last iteration the loops are left.
VerifyStep ==
    /\ pc = "verify"
    /\ LET holds == FeldmanSum(F_arr[vi], xs[vj]) = BasepointMul(s_arr[vi][vj])
           skip == vi = vj
           last == vi = N - 1 /\ vj = VerifyReceivers - 1
       IN  /\ checked' = IF skip THEN checked ELSE checked \cup {<<vi, vj>>}
           /\ pc' = IF ~skip /\ ~holds THEN "verify_failed"
                    ELSE IF last THEN "shares" ELSE "verify"
           /\ vj' = IF (~skip /\ ~holds) \/ last THEN vj
                    ELSE IF vj = VerifyReceivers - 1 THEN 0 ELSE vj + 1
           /\ vi' = IF (~skip /\ ~holds) \/ last THEN vi
                    ELSE IF vj = VerifyReceivers - 1 THEN vi + 1 ELSE vi
    /\ UNCHANGED <<prefix_scalar, PEDERSEN_BASE_POINT, key_pairs, r_arr, commits,
                   commits_unblinded, public_key, polynoms, F_arr, s_arr, shares,
                   reconstruct_participants, reconstruct_shares, secret, sample>>

Aggregate ==
    /\ pc = "shares"
    /\ shares' = AggregateShares(s_arr)
    /\ pc' = "reconstruct"
    /\ UNCHANGED <<prefix_scalar, PEDERSEN_BASE_POINT, key_pairs, r_arr, commits,
                   commits_unblinded, public_key, polynoms, F_arr, s_arr, vi, vj,
                   checked, reconstruct_participants, reconstruct_shares, secret,
                   sample>>

Reconstruct ==
    /\ pc = "reconstruct"
    /\ reconstruct_participants' = FirstT(xs)
    /\ reconstruct_shares' = FirstT(shares)
    /\ secret' = shamir_reconstruct(reconstruct_participants', reconstruct_shares')
    /\ pc' = "assert"
    /\ UNCHANGED <<prefix_scalar, PEDERSEN_BASE_POINT, key_pairs, r_arr, commits,
                   commits_unblinded, public_key, polynoms, F_arr, s_arr, vi, vj,
                   checked, shares, sample>>

FinalAssert ==
    /\ pc = "assert"
    /\ pc' = IF BasepointMul(secret) = public_key THEN "done" ELSE "final_failed"
    /\ UNCHANGED <<prefix_scalar, PEDERSEN_BASE_POINT, key_pairs, r_arr, commits,
                   commits_unblinded, public_key, polynoms, F_arr, s_arr, vi, vj,
                   checked, shares, reconstruct_participants, reconstruct_shares,
                   secret, sample>>

Next ==
    \/ DeriveBasePoint
    \/ GenerateKeyPairs
    \/ GenerateBlinders
    \/ Commit
    \/ UnblindCommits
    \/ SumPublicKey
    \/ RandomPolynoms
    \/ PublishF
    \/ EvaluateShares
    \/ VerifyStep
    \/ Aggregate
    \/ Reconstruct
    \/ FinalAssert

Spec == Init /\ [][Next]_vars

\* ------------------------------------------- shamir_reconstruct called alone

\* Polynomials of degree T - 1 whose values are handed to shamir_reconstruct.
SamplePolynoms ==
    {[k \in Degrees |-> IF k = 0 THEN s ELSE IF k = 1 THEN c1 ELSE c2] :
        s \in Scalars, c1 \in 0 .. MaxSampleCoeff, c2 \in 0 .. MaxSampleCoeff}

InitCall ==
    /\ pc = "call"
    /\ Blank
    /\ sample \in SamplePolynoms

\* shamir_reconstruct(&pts, &values of sample at pts), for any T indices
CallReconstruct ==
    /\ pc = "call"
    /\ \E pts \in [Degrees -> Scalars] :
          /\ reconstruct_participants' = pts
          /\ reconstruct_shares' = [k \in Degrees |-> PolynomAt(sample, pts[k])]
    /\ secret' = shamir_reconstruct(reconstruct_participants', reconstruct_shares')
    /\ pc' = "returned"
    /\ UNCHANGED <<prefix_scalar, PEDERSEN_BASE_POINT, key_pairs, r_arr, commits,
                   commits_unblinded, public_key, polynoms, F_arr, s_arr, vi, vj,
                   checked, shares, sample>>

NextCall == CallReconstruct

SpecCall == InitCall /\ [][NextCall]_vars

\* ------------------------------------------------------------------- claims

\* Positions of main at which the named value has been computed.
AfterReconstruct == {"assert", "done", "final_failed"}
AfterShares == {"reconstruct"} \cup AfterReconstruct
AfterVerify == {"shares"} \cup AfterShares
AfterS == {"verify", "verify_failed"} \cup AfterVerify
AfterF == {"s_arr"} \cup AfterS
AfterPolynoms == {"F_arr"} \cup AfterF
AfterPublicKey == {"polynoms"} \cup AfterPolynoms
AfterUnblind == {"public_key"} \cup AfterPublicKey
AfterCommit == {"unblind"} \cup AfterUnblind

Publics == [i \in Parties |-> key_pairs[i][2]]

RECURSIVE SumTo(_, _)
\* f[0] + ... + f[n-1] in the scalar field
SumTo(f, n) == IF n = 0 THEN 0 ELSE (SumTo(f, n - 1) + f[n - 1]) % Q

\* The coefficient-wise sum of the parties' polynomials.
SumPolynom == [k \in Degrees |-> SumTo([i \in Parties |-> polynoms[i][k]], N)]

Distinct(pts) == \A a, b \in DOMAIN pts : a # b => pts[a] # pts[b]

\* The state in which s_arr has just been filled, before the first check.
SharesJustEvaluated == pc = "verify" /\ vi = 0 /\ vj = 0 /\ checked = {}

\* C1: the scalar S that shamir_reconstruct returns on the aggregated shares
\* of the parties at indices 1, 2, 3 satisfies S*G = public_key: the final
\* assert_eq never fails, and for every choice of key pairs, blinders and
\* coefficients the value reconstructed from the evaluated shares is the
\* discrete logarithm of public_key.
C1_EndToEnd ==
    /\ pc # "final_failed"
    /\ pc \in AfterReconstruct => BasepointMul(secret) = public_key
    /\ SharesJustEvaluated =>
          BasepointMul(shamir_reconstruct(FirstT(xs), FirstT(AggregateShares(s_arr))))
              = public_key

\* The final assert_eq has passed in a run with nonzero secrets, nonzero
\* blinders and polynomials that are not constant.
C1_Witness ==
    /\ pc = "done"
    /\ secret # 0
    /\ \E i \in Parties : r_arr[i] # 0
    /\ \E i \in Parties : polynoms[i][1] # 0
    /\ shares[0] # shares[1]

\* C2: the Feldman check passes for all 5x5 pairs (sender i, receiver j):
\* s_i_j * G equals the sum over k of x_j^k * F_i[k], and the assert_eq of
\* the verification loop never fails.
C2_FeldmanPasses ==
    /\ pc # "verify_failed"
    /\ pc \in AfterS =>
          \A i, j \in Parties : FeldmanSum(F_arr[i], xs[j]) = BasepointMul(s_arr[i][j])

\* C3: for every polynomial of degree T - 1 with constant term S and every
\* T pairwise distinct nonzero indices, in any order, shamir_reconstruct on
\* the values of the polynomial at the indices returns S.
C3_Threshold ==
    (/\ pc = "returned"
     /\ Distinct(reconstruct_participants)
     /\ \A k \in Degrees : reconstruct_participants[k] # 0)
        => secret = sample[0]

\* A polynomial of full degree reconstructed from indices that are neither
\* the first three nor in increasing order.
C3_Witness ==
    /\ pc = "returned"
    /\ reconstruct_participants = [k \in Degrees |-> IF k = 0 THEN 5 ELSE IF k = 1 THEN 2 ELSE 4]
    /\ sample[2] # 0
    /\ sample[1] # 0
    /\ sample[0] # 0
    /\ reconstruct_shares[0] # sample[0]
    /\ secret = sample[0]

\* C4: whenever two of the T indices passed to shamir_reconstruct are equal
\* the call fails and never returns a scalar.
C4_DuplicateIndicesFail ==
    ~(pc = "returned" /\ ~Distinct(reconstruct_participants))

\* C5: once built, every verification vector satisfies F_i[k] = coeff_i[k]*G
\* for every k in [0, T), the top degree included.
C5_VerificationVector ==
    pc \in AfterF =>
        \A i \in Parties :
            /\ DOMAIN F_arr[i] = Degrees
            /\ \A k \in Degrees : F_arr[i][k] = BasepointMul(polynoms[i][k])

\* C6: the aggregate public key is the sum of the unblinded commitments and
\* the sum of the parties' public points; it is a function of the key pairs
\* alone, so runs that differ only in the blinders agree on it.
C6_PublicKeySum ==
    pc \in AfterPublicKey =>
        /\ public_key = PointSum(commits_unblinded)
        /\ public_key = PointSum(Publics)

\* The public key has been summed in a run whose blinders are nonzero and
\* whose commitments differ from the public points they hide.
C6_Witness ==
    /\ pc = "polynoms"
    /\ \E i, j \in Parties : r_arr[i] # 0 /\ r_arr[j] # 0 /\ i # j
    /\ \E i, j \in Parties : r_arr[i] # r_arr[j]
    /\ \E i \in Parties : commits[i] # key_pairs[i][2]
    /\ public_key # IDENTITY

\* C7: unblind(blind(P, r), r) = P for every point P and blinder r under the
\* base point H the run has derived, and in the run commits_unblinded[i] is
\* party i's public point.
C7_RoundTrip ==
    /\ pc = "key_pairs" =>
          \A P \in Points, r \in Scalars :
              Unblind(Blind(P, r, PEDERSEN_BASE_POINT), r, PEDERSEN_BASE_POINT) = P
    /\ pc \in AfterUnblind =>
          \A i \in Parties : commits_unblinded[i] = key_pairs[i][2]

\* The commitments have been unblinded in a run where blinding moved them.
C7_Witness ==
    /\ pc = "public_key"
    /\ \E i \in Parties : r_arr[i] # 0 /\ commits[i] # key_pairs[i][2]
    /\ \E i, j \in Parties : r_arr[i] # r_arr[j]
    /\ PEDERSEN_BASE_POINT # IDENTITY

\* C8: once the Pedersen base point H is derived, the program holds no
\* scalar k with k*G = H.
C8_NoKnownDlog ==
    pc # "base_point" => BasepointMul(prefix_scalar) # PEDERSEN_BASE_POINT

\* C9: by the time share aggregation starts the Feldman check has been
\* evaluated for every ordered pair (sender i, receiver j), i # j, over all
\* N parties.
C9_AllPairsChecked ==
    pc \in AfterVerify =>
        \A i, j \in Parties : i # j => <<i, j>> \in checked

\* C10: party j's final share is the sum over all senders i of s_arr[i][j],
\* and the final shares are the values at the parties' indices of the sum of
\* the N polynomials.
C10_Aggregation ==
    /\ pc \in AfterShares =>
          \A j \in Parties :
              /\ shares[j] = SumTo([i \in Parties |-> s_arr[i][j]], N)
              /\ shares[j] = PolynomAt(SumPolynom, xs[j])
    /\ SharesJustEvaluated =>
          \A j \in Parties : AggregateShares(s_arr)[j] = PolynomAt(SumPolynom, xs[j])

\* The shares have been aggregated from a share matrix whose rows and
\* columns sum differently.
C10_Witness ==
    /\ pc = "reconstruct"
    /\ \E j \in Parties :
          shares[j] # SumTo([i \in Parties |-> s_arr[j][i]], N)
    /\ \E i, j \in Parties : s_arr[i][j] # s_arr[j][i]

====
